---- MODULE Spec2Model ----
(***************************************************************************)
(* Translation merge scripts of paperless-scanner:                         *)
(*   add_2fa_translations.py       structured (ElementTree) merge          *)
(*   add_security_translations.py  text merge before the closing tag       *)
(*                                                                         *)
(* scripts/add_wifi_translations.py has no behaviour to model: Python      *)
(* rejects the module with a SyntaxError (the quoting in the fr and it     *)
(* rows of its table, lines 24 and 34) before any statement runs, and no   *)
(* file is read or written.                                                *)
(*                                                                         *)
(* A resource file is a sequence of lexical tokens.  A token stands for a  *)
(* run of characters of strings.xml: the XML declaration, a line feed, the *)
(* <resources> tag, the </resources> tag, a comment, a <string> element.   *)
(* Text operations of the scripts (regex search, replace) are carried out  *)
(* on the characters the tokens stand for; where a replacement cuts a      *)
(* comment in two before a </resources> literal, the two pieces are tokens *)
(* with part "pre" and "post".  Where a failed write cuts the file inside  *)
(* a token, the part tells what the characters that are left hold.         *)
(***************************************************************************)
EXTENDS Integers, Sequences, FiniteSets, TLC

\* Total number of body pieces (what follows the file header: single tokens,
\* or the block of entries OtherEntries) over all the resource files on disk
\* in an initial state.
MaxTokens == 3
\* Number of times the batch is run back to back.
MaxRuns == 2

VARIABLES
    script,       \* which script runs: "2fa" or "security"
    disk,         \* folder -> content of <folder>/strings.xml, or NoFile
    disk0,        \* the disk before the first run
    prev,         \* the disk when the current run started
    run,          \* number of the current run, 1..MaxRuns
    idx,          \* position in the table of the locale being processed
    st,           \* locale -> state of its processing in the current run
    outcome,      \* locale -> result recorded in the current run
    last,         \* locale -> result recorded in the previous run
    content,      \* the content read (text), or the root element parsed (2fa)
    new_strings,  \* the entries planned for the current locale
    added,        \* locale -> entries written in the current run
    writes,       \* locale -> number of times its file was written this run
    total_updated,\* 2fa: count of files add_translations_to_file updated
    crashed       \* an exception left the batch loop

vars == <<script, disk, disk0, prev, run, idx, st, outcome, last, content,
          new_strings, added, writes, total_updated, crashed>>

-----------------------------------------------------------------------------
(* Tokens *)

Tok(t, name, val, attr, wrap, part) ==
    [t |-> t, name |-> name, val |-> val, attr |-> attr, wrap |-> wrap, part |-> part]

\* <?xml version="1.0" encoding="utf-8"?> as found in the repository's files
\* ("dq"), or <?xml version='1.0' encoding='utf-8'?> as ElementTree writes it ("sq")
Decl(q)    == Tok("decl", "", q, "", FALSE, "whole")
NL         == Tok("nl", "", "", "", FALSE, "whole")
Open       == Tok("open", "", "", "", FALSE, "whole")
Close      == Tok("close", "", "", "", FALSE, "whole")
\* <!-- ... -->; val "close" when the comment text holds the literal </resources>
Comment(v) == Tok("comment", "", v, "", FALSE, "whole")
\* <!-- <string name="k">v</string> -->: an entry that is commented out
StrCommented(k, v) == Tok("comment", k, v, "", FALSE, "whole")
\* "    <string name="k">v</string>"; attr "translatable" for
\* <string name="k" translatable="false">; wrap when the element sits inside
\* another child of the root (<group><string ...>...</string></group>)
Str(k, v)        == Tok("string", k, v, "", FALSE, "whole")
StrAttr(k, v)    == Tok("string", k, v, "translatable", FALSE, "whole")
StrWrapped(k, v) == Tok("string", k, v, "", TRUE, "whole")
\* What ElementTree writes for an element that has neither text nor children:
\* <resources />, <group /> (wrap), <string name="k" /> (name k)
Empty(k, a, w) == Tok("empty", k, "", a, w, "whole")
\* <string name="k">v and </string> where the element holds further elements,
\* <group> and </group> likewise
SOpen(k, v, a) == Tok("sopen", k, v, a, FALSE, "whole")
SClose         == Tok("sclose", "", "", "", FALSE, "whole")
GOpen          == Tok("gopen", "", "", "", FALSE, "whole")
GClose         == Tok("gclose", "", "", "", FALSE, "whole")

\* Start tags, end tags, and elements that are one token
Opening == {"open", "gopen", "sopen"}
Closing == {"close", "gclose", "sclose"}
Leaf    == {"string", "empty"}

\* The end tag that closes a start tag
CloserOf(t) ==
    CASE t = "open"  -> "close"
      [] t = "gopen" -> "gclose"
      [] t = "sopen" -> "sclose"

\* The elements of toks at the positions K, in order
Sel(toks, K) ==
    CHOOSE r \in {[i \in 1..Cardinality(k) |->
                      t[CHOOSE j \in k : Cardinality({m \in k : m <= j}) = i]]
                  : t \in {toks}, k \in {K}} : TRUE

\* What disk holds for a path at which there is no file
NoFile == <<Tok("nofile", "", "", "", FALSE, "whole")>>

\* Every resource file of the repository starts with these two lines
FileHead == <<Decl("dq"), NL, Open, NL>>

-----------------------------------------------------------------------------
(* Static tables of the scripts: the first rows of each table *)

Scripts == {"2fa", "security"}

TRANSLATIONS_2fa ==
    [en |-> << <<"two_factor_title", "Two-Factor Authentication">>,
               <<"two_factor_subtitle", "Security Code Required">>,
               <<"two_factor_description", "Enter the 6-digit code from your authenticator app">>,
               <<"two_factor_code_label", "6-digit code">>,
               <<"two_factor_code_hint", "The code will be automatically submitted">>,
               <<"two_factor_verify_button", "Verify Code">> >>,
     fr |-> << <<"two_factor_title", "Authentification à deux facteurs">>,
               <<"two_factor_subtitle", "Code de sécurité requis">>,
               <<"two_factor_description", "Entrez le code à 6 chiffres de votre application d'authentification">>,
               <<"two_factor_code_label", "Code à 6 chiffres">>,
               <<"two_factor_code_hint", "Le code sera soumis automatiquement">>,
               <<"two_factor_verify_button", "Vérifier le code">> >>]

TRANSLATIONS_security ==
    [de |-> << >>,
     en |-> << <<"settings_section_security", "Security">>,
               <<"app_lock_change_password_subtitle", "Current password required">>,
               <<"app_lock_biometric_unlock", "Biometric Unlock">>,
               <<"app_lock_biometric_unlock_subtitle", "Use fingerprint or face recognition">> >>,
     fr |-> << <<"settings_section_security", "Sécurité">>,
               <<"app_lock_change_password_subtitle", "Mot de passe actuel requis">>,
               <<"app_lock_biometric_unlock", "Déverrouillage biométrique">>,
               <<"app_lock_biometric_unlock_subtitle", "Utiliser l'empreinte digitale ou la reconnaissance faciale">> >>]

LANG_FOLDERS == [en |-> "values-en", fr |-> "values-fr"]

\* The locale codes in iteration order of the table each script loops over
LangTable(s) ==
    CASE s = "2fa"      -> <<"en", "fr">>
      [] s = "security" -> <<"de", "en", "fr">>

Langs(s) == {LangTable(s)[i] : i \in 1..Len(LangTable(s))}

\* The candidate entries of a locale, as <<key, value>> pairs in table order
Candidates(s, lang) ==
    CASE s = "2fa"      -> TRANSLATIONS_2fa[lang]
      [] s = "security" -> TRANSLATIONS_security[lang]

\* 2fa: main() builds the folder name; security looks it up
FolderOf(s, lang) ==
    CASE s = "2fa"      -> IF lang = "en" THEN "values" ELSE "values-" \o lang
      [] s = "security" -> IF lang \in DOMAIN LANG_FOLDERS
                           THEN LANG_FOLDERS[lang] ELSE ""

Folders(s) == {FolderOf(s, l) : l \in Langs(s)} \ {""}

-----------------------------------------------------------------------------
(* The resource files an initial state may hold *)

CandidateKey(s, i) == Candidates(s, "en")[i][1]

\* Concatenation of a sequence of token sequences
RECURSIVE Flatten(_)
Flatten(ss) == IF ss = <<>> THEN <<>> ELSE ss[1] \o Flatten(Tail(ss))

\* The tokens a file body is made of.  "Old" is a value no table holds.
BodyTokens(s) ==
    {NL, Close, Comment("close"),
     Str(CandidateKey(s, 1), "Old"), StrAttr(CandidateKey(s, 1), "Old"),
     Str(CandidateKey(s, 2), "Old"), StrWrapped(CandidateKey(s, 1), "Old"),
     StrCommented(CandidateKey(s, 1), "Old")}

\* The entries of every candidate key but the first, as a file that was
\* translated by hand holds them
OtherEntries(s) ==
    [i \in 1..(Len(Candidates(s, "en")) - 1) |-> Str(CandidateKey(s, i + 1), "Old")]

\* What a file body is put together from
BodyPieces(s) == {<<tok>> : tok \in BodyTokens(s)} \cup {OtherEntries(s)}

FilesOfLen(s, k) == {FileHead \o Flatten(b) : b \in [1..k -> BodyPieces(s)]}

RECURSIVE DisksOver(_, _, _)
DisksOver(s, folders, budget) ==
    IF folders = {} THEN {<<>>}
    ELSE LET f == CHOOSE x \in folders : TRUE
         IN  UNION {
               {(f :> file) @@ rest :
                    file \in FilesOfLen(s, k) \cup (IF k = 0 THEN {NoFile} ELSE {}),
                    rest \in DisksOver(s, folders \ {f}, budget - k)}
               : k \in 0..budget}

Disks(s) == DisksOver(s, Folders(s), MaxTokens)

-----------------------------------------------------------------------------
(* Characters of a token *)

\* The initial pieces of a token that a write can leave when it fails inside
\* the token, by what they hold:
\*   "blank"  some of the blanks in front of an indented element
\*   "early"  an initial piece that ends before the start tag <string ...>,
\*            or the literal </resources> of a comment, is complete
\*   "late"   an initial piece that holds the start tag, or the literal
\*   "broken" an initial piece that holds the start tag and ends inside a
\*            character of the value that UTF-8 encodes in two bytes
\* and likewise "post_early" and "post_late" for the second piece of a
\* comment that a splice cut in two.  An initial piece of the first piece of
\* such a comment is an "early" piece of the comment.
CutParts == {"blank", "early", "late", "broken", "post_early", "post_late"}

\* The values of the tables that hold a character outside ASCII (à, é)
NonAscii ==
    {"Authentification à deux facteurs", "Code de sécurité requis",
     "Entrez le code à 6 chiffres de votre application d'authentification",
     "Code à 6 chiffres", "Vérifier le code",
     "Sécurité", "Déverrouillage biométrique"}

\* Those of them that hold more than one such character
NonAsciiTwice == {"Code de sécurité requis", "Sécurité", "Déverrouillage biométrique"}

\* The pieces that end inside a character of the token's value
BrokenOf(tok) == IF tok.val \in NonAscii THEN {"broken"} ELSE {}

\* The pieces a token has, when all of it is there
PiecesOf(tok) ==
    CASE tok.t = "nl"      -> {}
      [] tok.t = "comment" -> {"early", "late"} \cup BrokenOf(tok)
      [] tok.t = "string"  -> {"blank", "early", "late"} \cup BrokenOf(tok)
      [] tok.t = "empty"   -> IF tok.name # "" THEN {"blank", "early"} ELSE {"early"}
      [] tok.t = "sopen"   -> IF tok.val # "" THEN {"early", "late"} \cup BrokenOf(tok)
                              ELSE {"early"}
      [] OTHER             -> {"early"}

\* The tokens a write may end with when it fails inside tok: an initial piece
\* of what tok holds
Cuts(tok) ==
    {[tok EXCEPT !.part = p] : p \in
        CASE tok.part = "whole"      -> PiecesOf(tok)
          [] tok.part = "pre"        -> {"early"}
          [] tok.part = "post"       -> {"post_early", "post_late"}
          [] tok.part = "late"       -> PiecesOf(tok)
          [] tok.part = "broken"     -> IF tok.val \in NonAsciiTwice THEN PiecesOf(tok)
                                        ELSE PiecesOf(tok) \ {"broken"}
          [] tok.part = "early"      -> PiecesOf(tok) \ {"late", "broken"}
          [] tok.part = "blank"      -> {"blank"}
          [] tok.part = "post_late"  -> {"post_early", "post_late"}
          [] tok.part = "post_early" -> {"post_early"}}

\* Whether the bytes of the file are UTF-8: f.read() decodes all of them
Decodable(text) == \A i \in 1..Len(text) : text[i].part # "broken"

\* Whether the characters of tok hold the literal </resources>
HasCloseLiteral(tok) ==
    \/ tok.t = "close" /\ tok.part = "whole"
    \/ /\ tok.t = "comment" /\ tok.val = "close"
       /\ tok.part \in {"whole", "post", "late", "post_late"}

\* Whether the characters of tok hold <string name="key"> (the name attribute
\* directly followed by ">"); a commented-out entry holds them as well
HasStringStart(tok, key) ==
    /\ tok.t \in {"string", "comment", "sopen"}
    /\ tok.part \in {"whole", "late"}
    /\ tok.attr = ""
    /\ tok.name = key

-----------------------------------------------------------------------------
(* What a resource file defines *)

\* Whether token i of text lies inside a comment that a splice cut open
InsideComment(text, i) ==
    \E p \in 1..(i - 1) :
        /\ text[p].t = "comment" /\ text[p].part = "pre"
        /\ \A q \in (p + 1)..(i - 1) : ~(text[q].t = "comment" /\ text[q].part = "post")

\* The token is, or opens, a <string> element
IsString(tok) == tok.t \in {"string", "sopen", "empty"} /\ tok.name # ""

\* The <string> elements of the file from token i on, in document order
RECURSIVE EntriesFrom(_, _)
EntriesFrom(text, i) ==
    IF i > Len(text) THEN <<>>
    ELSE (IF IsString(text[i]) /\ text[i].part = "whole" /\ ~InsideComment(text, i)
          THEN <<text[i]>> ELSE <<>>)
         \o EntriesFrom(text, i + 1)

\* The <string> elements of the file, in document order
Entries(text) == EntriesFrom(text, 1)

\* The keys the file defines
DefinedKeys(text) == {Entries(text)[i].name : i \in 1..Len(Entries(text))}

\* How many <string> elements of the file carry the key
KeyCount(text, key) ==
    Cardinality({i \in 1..Len(Entries(text)) : Entries(text)[i].name = key})

\* The values the file stores under the key
ValuesOf(text, key) ==
    {Entries(text)[i].val : i \in {j \in 1..Len(Entries(text)) : Entries(text)[j].name = key}}

-----------------------------------------------------------------------------
(* xml.etree.ElementTree, as add_2fa_translations.py uses it *)

\* The parser's position: before the root element ("prolog"), inside the
\* elements whose start tags are on the stack ("in"), after the root element
\* ("epilog"), or stopped by a syntax error; com when it is inside a comment
\* that a splice cut open
XmlState(ph, stack, com) == [ph |-> ph, stack |-> stack, com |-> com]

XmlError == XmlState("error", <<>>, FALSE)

\* Where token i takes the parser.  The text of a comment may hold tags but
\* not "--"; the declaration is accepted at the very start only; an end tag
\* has to match the last start tag; one root element, nothing but white space
\* and comments around it.  What a failed write left of a token is the end
\* of the file: blanks are white space, anything else is an unfinished tag,
\* comment, declaration or character.
XmlStep(tok, i, s) ==
    IF s.ph = "error" THEN s
    ELSE IF tok.part \in CutParts
    THEN IF tok.part = "blank" THEN s ELSE XmlError
    ELSE IF s.com
    THEN IF tok.t # "comment" THEN s
         ELSE IF tok.part = "post" THEN [s EXCEPT !.com = FALSE] ELSE XmlError
    ELSE IF tok.part # "whole"
    THEN IF tok.t = "comment" /\ tok.part = "pre"
         THEN [s EXCEPT !.com = TRUE] ELSE XmlError
    ELSE CASE tok.t = "decl" -> IF i = 1 THEN s ELSE XmlError
           [] tok.t \in {"nl", "comment"} -> s
           [] tok.t \in Leaf ->
                (CASE s.ph = "prolog" -> XmlState("epilog", <<>>, FALSE)
                   [] s.ph = "in"     -> s
                   [] OTHER           -> XmlError)
           [] tok.t \in Opening ->
                IF s.ph = "epilog" THEN XmlError
                ELSE XmlState("in", Append(s.stack, tok.t), FALSE)
           [] tok.t \in Closing ->
                IF s.ph # "in" THEN XmlError
                ELSE IF CloserOf(s.stack[Len(s.stack)]) # tok.t THEN XmlError
                ELSE IF Len(s.stack) = 1 THEN XmlState("epilog", <<>>, FALSE)
                ELSE [s EXCEPT !.stack = SubSeq(s.stack, 1, Len(s.stack) - 1)]
           [] OTHER -> XmlError

\* The parser's position after the tokens from i on, starting in state
RECURSIVE XmlScan(_, _, _)
XmlScan(text, i, state) ==
    IF i > Len(text) THEN state
    ELSE CHOOSE end \in {XmlScan(text, i + 1, XmlStep(text[i], i, s)) : s \in {state}} : TRUE

\* ET.parse(file_path) succeeds
WellFormed(text) ==
    XmlScan(text, 1, XmlState("prolog", <<>>, FALSE)) = XmlState("epilog", <<>>, FALSE)

IsElement(tok) == tok.t \in Opening \cup Closing \cup Leaf /\ tok.part = "whole"

\* The declaration, comments and what a cut comment holds are not part of
\* the tree
WithoutComments(text) ==
    Sel(text, {i \in 1..Len(text) :
                  /\ text[i].t \notin {"decl", "comment"}
                  /\ ~InsideComment(text, i)})

\* Nor is what stands before and after the root element
RootElement(kept) ==
    LET at == {j \in 1..Len(kept) : IsElement(kept[j])}
    IN  Sel(kept, {j \in 1..Len(kept) : \E a, b \in at : a <= j /\ j <= b})

\* tree.getroot(): the tokens of the root element
getroot(text) ==
    CHOOSE root \in {RootElement(kept) : kept \in {WithoutComments(t) : t \in {text}}} : TRUE

\* root.findall('.//string'): every string element below the root
findall(root) ==
    IF root = <<>> THEN <<>>
    ELSE IF root[1].t \in Leaf
    THEN (IF root[1].wrap /\ root[1].name # ""
          THEN <<[root[1] EXCEPT !.wrap = FALSE]>> ELSE <<>>)
    ELSE SelectSeq(Tail(root), IsString)

\* ET.SubElement(root, 'string', name=key) for each new entry: the elements
\* are put in before the end tag of the root.  A root element that was one
\* token is written with a start tag and an end tag from then on.
SubElements(root, new) ==
    LET r == root[1] IN
    CASE r.t \in Leaf /\ r.wrap /\ r.name # "" ->
              <<GOpen, [r EXCEPT !.wrap = FALSE]>> \o new \o <<GClose>>
      [] r.t \in Leaf /\ r.wrap     -> <<GOpen>> \o new \o <<GClose>>
      [] r.t \in Leaf /\ r.name # "" -> <<SOpen(r.name, r.val, r.attr)>> \o new \o <<SClose>>
      [] r.t \in Leaf               -> <<Open>> \o new \o <<Close>>
      [] OTHER -> SubSeq(root, 1, Len(root) - 1) \o new \o <<root[Len(root)]>>

\* The line feed at j is white space ET.indent leaves alone: it belongs to
\* the text of an element without children, or to the text that starts with
\* the value of a <string> start tag
KeptText(toks, j) ==
    LET before == {p \in 1..(j - 1) : toks[p].t # "nl"}
        after  == {n \in (j + 1)..Len(toks) : toks[n].t # "nl"}
    IN  /\ before # {} /\ after # {}
        /\ LET p == CHOOSE x \in before : \A y \in before : y <= x
               n == CHOOSE x \in after : \A y \in after : x <= y
           IN  /\ toks[p].t \in Opening
               /\ \/ toks[n].t \in Closing
                  \/ toks[p].t = "sopen" /\ toks[p].val # ""

\* An element without text and children is written as one token
EmptyElements(toks) ==
    LET folds(j) == /\ j < Len(toks)
                    /\ toks[j].t \in Opening /\ toks[j + 1].t \in Closing
                    /\ toks[j].val = ""
        short == [j \in 1..Len(toks) |->
                    IF folds(j)
                    THEN Empty(toks[j].name, toks[j].attr, toks[j].t = "gopen")
                    ELSE IF toks[j].t = "string" /\ toks[j].val = ""
                    THEN [toks[j] EXCEPT !.t = "empty"]
                    ELSE toks[j]]
    IN  Sel(short, {j \in 1..Len(toks) : j = 1 \/ ~folds(j - 1)})

\* The tree without the white space ET.indent replaces
WithoutBlanks(root) ==
    Sel(root, {j \in 1..Len(root) : root[j].t = "nl" => KeptText(root, j)})

\* Every element starts on a line of its own, except after text that is kept
Lines(elems) ==
    Flatten([j \in 1..Len(elems) |->
        IF /\ j < Len(elems)
           /\ elems[j].t # "nl" /\ elems[j + 1].t # "nl"
           /\ ~(elems[j].t = "sopen" /\ elems[j].val # "")
        THEN <<elems[j], NL>> ELSE <<elems[j]>>])

\* ET.indent(tree, space='    ', level=0)
IndentedLines(root) ==
    CHOOSE out \in {Lines(elems) : elems \in
                       {EmptyElements(text) : text \in
                           {WithoutBlanks(r) : r \in {root}}}} : TRUE

\* tree.write(file_path, encoding='utf-8', xml_declaration=True)
tree_write(root) == <<Decl("sq"), NL>> \o IndentedLines(root)

-----------------------------------------------------------------------------
(* add_2fa_translations.py: add_translations_to_file *)

existing_keys_2fa(root) == {findall(root)[i].name : i \in 1..Len(findall(root))}

new_keys(cands) == {cands[i][1] : i \in 1..Len(cands)}

\* The elements the loop over translations.items() appends to the root
RECURSIVE new_elements(_, _)
new_elements(cands, existing) ==
    IF cands = <<>> THEN <<>>
    ELSE (IF cands[1][1] \notin existing
          THEN <<Str(cands[1][1], cands[1][2])>> ELSE <<>>)
         \o new_elements(Tail(cands), existing)

-----------------------------------------------------------------------------
(* add_security_translations.py: add_translations_to_file *)

\* re.findall(r'<string name="([^"]+)">', content)
existing_keys_security(text) ==
    {text[i].name : i \in {j \in 1..Len(text) :
                             /\ text[j].name # ""
                             /\ HasStringStart(text[j], text[j].name)}}

\* Variant: the lines are written with a second attribute after the name, a
\* form the regular expression of existing_keys does not match
RECURSIVE new_strings_security_attr(_, _)
new_strings_security_attr(cands, existing) ==
    IF cands = <<>> THEN <<>>
    ELSE (IF cands[1][1] \notin existing
          THEN <<StrAttr(cands[1][1], cands[1][2])>> ELSE <<>>)
         \o new_strings_security_attr(Tail(cands), existing)

\* The lines f'    <string name="{key}">{value}</string>' of the missing keys
RECURSIVE new_strings_security(_, _)
new_strings_security(cands, existing) ==
    IF cands = <<>> THEN <<>>
    ELSE (IF cands[1][1] \notin existing
          THEN <<Str(cands[1][1], cands[1][2])>> ELSE <<>>)
         \o new_strings_security(Tail(cands), existing)

\* if not new_strings
nothing_new(lines) == lines = <<>>

\* "\n".join(new_strings) + "\n"
RECURSIVE translation_block(_)
translation_block(lines) ==
    IF lines = <<>> THEN <<NL>>
    ELSE IF Len(lines) = 1 THEN <<lines[1], NL>>
    ELSE <<lines[1], NL>> \o translation_block(Tail(lines))

\* "</resources>" in content
has_closing_tag(text) == \E i \in 1..Len(text) : HasCloseLiteral(text[i])

\* content.replace("</resources>", translation_block + "</resources>"):
\* every occurrence of the literal is replaced
replace_closing_tag(text, block) ==
    Flatten([i \in 1..Len(text) |->
        LET tok == text[i] IN
        IF ~HasCloseLiteral(tok) THEN <<tok>>
        ELSE IF tok.t = "comment" /\ tok.part = "whole"
        THEN <<[tok EXCEPT !.part = "pre"]>> \o block \o <<[tok EXCEPT !.part = "post"]>>
        ELSE IF tok.t = "comment" /\ tok.part = "late"
        THEN <<[tok EXCEPT !.part = "pre"]>> \o block \o <<[tok EXCEPT !.part = "post_late"]>>
        ELSE block \o <<tok>>])

-----------------------------------------------------------------------------
(* The batch: main() of the two scripts *)

Terminal == {"NoOp", "Written", "Failed", "Skipped"}

Running  == ~crashed /\ idx <= Len(LangTable(script))
cur      == LangTable(script)[idx]
cur_file == FolderOf(script, cur)

\* The <<key, value>> pairs of the string elements of a token sequence
PairsOf(toks) ==
    LET strs == SelectSeq(toks, LAMBDA tok : tok.t = "string")
    IN  [i \in 1..Len(strs) |-> <<strs[i].name, strs[i].val>>]

\* Variant: a failure ends the loop (break) instead of the iteration
Finish_break(state, result) ==
    /\ st' = [st EXCEPT ![cur] = state]
    /\ outcome' = [outcome EXCEPT ![cur] = result]
    /\ idx' = IF state = "Failed" THEN Len(LangTable(script)) + 1 ELSE idx + 1
    /\ content' = <<>>
    /\ new_strings' = <<>>

\* The loop body ends (return / continue) and the loop moves on
Finish(state, result) ==
    /\ st' = [st EXCEPT ![cur] = state]
    /\ outcome' = [outcome EXCEPT ![cur] = result]
    /\ idx' = idx + 1
    /\ content' = <<>>
    /\ new_strings' = <<>>

Init ==
    /\ script \in Scripts
    /\ disk \in Disks(script)
    /\ disk0 = disk
    /\ prev = disk
    /\ run = 1
    /\ idx = 1
    /\ st = [l \in Langs(script) |-> "Pending"]
    /\ outcome = [l \in Langs(script) |-> "Pending"]
    /\ last = [l \in Langs(script) |-> "Pending"]
    /\ content = <<>>
    /\ new_strings = <<>>
    /\ added = [l \in Langs(script) |-> <<>>]
    /\ writes = [l \in Langs(script) |-> 0]
    /\ total_updated = 0
    /\ crashed = FALSE

\* The locale's resource file is determined
Resolve ==
    /\ Running /\ st[cur] = "Pending"
    /\ IF script = "security" /\ cur = "de"
       THEN Finish("Skipped", "Skipped")
       ELSE IF cur_file = ""
       THEN Finish("Failed", "UnknownLocale")
       ELSE /\ st' = [st EXCEPT ![cur] = "Resolved"]
            /\ UNCHANGED <<outcome, idx, content, new_strings>>
    /\ UNCHANGED <<script, disk, disk0, prev, run, last, added, writes,
                   total_updated, crashed>>

\* os.path.exists / strings_file.exists(), then the file is read.  The text
\* script decodes the file as UTF-8 and has no handler for the
\* UnicodeDecodeError of f.read(), which ends the process.
Read ==
    /\ Running /\ st[cur] = "Resolved"
    /\ IF disk[cur_file] = NoFile
       THEN Finish("Failed", "NotFound") /\ UNCHANGED crashed
       ELSE IF script = "2fa"
       THEN /\ IF WellFormed(disk[cur_file])
               THEN /\ st' = [st EXCEPT ![cur] = "Read"]
                    /\ content' = getroot(disk[cur_file])
                    /\ UNCHANGED <<outcome, idx, new_strings>>
               ELSE Finish("Failed", "ParseError")
            /\ UNCHANGED crashed
       ELSE IF Decodable(disk[cur_file])
       THEN /\ st' = [st EXCEPT ![cur] = "Read"]
            /\ content' = disk[cur_file]
            /\ UNCHANGED <<outcome, idx, new_strings, crashed>>
       ELSE /\ crashed' = TRUE
            /\ UNCHANGED <<st, outcome, idx, content, new_strings>>
    /\ UNCHANGED <<script, disk, disk0, prev, run, last, added, writes,
                   total_updated>>

\* The entries to add are worked out
Plan ==
    /\ Running /\ st[cur] = "Read"
    /\ CASE script = "2fa" ->
              IF new_keys(Candidates(script, cur)) \subseteq existing_keys_2fa(content)
              THEN Finish("NoOp", "NoOp")
              ELSE /\ new_strings' = new_elements(Candidates(script, cur),
                                                  existing_keys_2fa(content))
                   /\ st' = [st EXCEPT ![cur] = "Planned"]
                   /\ UNCHANGED <<outcome, idx, content>>
         [] script = "security" ->
              LET lines == new_strings_security(Candidates(script, cur),
                                                existing_keys_security(content))
              IN  IF nothing_new(lines)
                  THEN Finish("NoOp", "NoOp")
                  ELSE /\ new_strings' = lines
                       /\ st' = [st EXCEPT ![cur] = "Planned"]
                       /\ UNCHANGED <<outcome, idx, content>>
    /\ UNCHANGED <<script, disk, disk0, prev, run, last, added, writes,
                   total_updated, crashed>>

\* The content the script writes back
Updated ==
    CASE script = "2fa"      -> tree_write(SubElements(content, new_strings))
      [] script = "security" -> replace_closing_tag(content, translation_block(new_strings))

\* The entries are put in and the file is written
Write ==
    /\ Running /\ st[cur] = "Planned"
    /\ IF script = "security" /\ ~has_closing_tag(content)
       THEN /\ Finish("Failed", "AnchorNotFound")
            /\ UNCHANGED <<disk, added, writes, total_updated>>
       ELSE /\ disk' = [disk EXCEPT ![cur_file] = Updated]
            /\ added' = [added EXCEPT ![cur] = PairsOf(new_strings)]
            /\ writes' = [writes EXCEPT ![cur] = @ + 1]
            /\ total_updated' = IF script = "2fa" THEN total_updated + 1
                                ELSE total_updated
            /\ Finish("Written", "Added")
    /\ UNCHANGED <<script, disk0, prev, run, last, crashed>>

\* The script is started again on the files the previous run left, after
\* the loop came to its end or after an exception ended the process
NextRun ==
    /\ (crashed \/ idx > Len(LangTable(script))) /\ run < MaxRuns
    /\ run' = run + 1
    /\ idx' = 1
    /\ prev' = disk
    /\ last' = outcome
    /\ st' = [l \in Langs(script) |-> "Pending"]
    /\ outcome' = [l \in Langs(script) |-> "Pending"]
    /\ added' = [l \in Langs(script) |-> <<>>]
    /\ writes' = [l \in Langs(script) |-> 0]
    /\ total_updated' = 0
    /\ content' = <<>>
    /\ new_strings' = <<>>
    /\ crashed' = FALSE
    /\ UNCHANGED <<script, disk, disk0>>

Next == Resolve \/ Read \/ Plan \/ Write \/ NextRun

Spec == Init /\ [][Next]_vars

-----------------------------------------------------------------------------
(* Failing file operations *)

\* open(strings_file, "r") or ET.parse raises OSError, or f.read() meets
\* bytes that are not UTF-8 and raises UnicodeDecodeError.  The 2fa script
\* catches it in add_translations_to_file; the security script has no
\* handler, so the exception leaves the loop and ends the process.
ReadFails ==
    /\ Running /\ st[cur] = "Resolved" /\ disk[cur_file] # NoFile
    /\ IF script = "2fa"
       THEN /\ Finish("Failed", "Error")
            /\ UNCHANGED crashed
       ELSE /\ crashed' = TRUE
            /\ UNCHANGED <<st, outcome, idx, content, new_strings>>
    /\ UNCHANGED <<script, disk, disk0, prev, run, last, added, writes, total_updated>>

\* What a failed write can leave in the file: open(strings_file, "w") (inside
\* tree.write for 2fa) raises and the file is as it was, or open() has
\* emptied the file and f.write / close raises (file size limit, full disk),
\* so that the file holds nothing or an initial part of the new content,
\* which may end inside a token
\* The initial parts of the new content, at a token's end or inside a token
InitialParts(new) ==
    {SubSeq(new, 1, k) : k \in 0..(Len(new) - 1)}
    \cup UNION {{Append(SubSeq(new, 1, k - 1), piece) : piece \in Cuts(new[k])}
               : k \in 1..Len(new)}

Leftovers == {disk[cur_file]} \cup UNION {InitialParts(new) : new \in {Updated}}

\* Writing the file back raises OSError
WriteFails ==
    /\ Running /\ st[cur] = "Planned"
    /\ script = "security" => has_closing_tag(content)
    /\ \E left \in Leftovers : disk' = [disk EXCEPT ![cur_file] = left]
    /\ IF script = "2fa"
       THEN /\ Finish("Failed", "Error")
            /\ UNCHANGED crashed
       ELSE /\ crashed' = TRUE
            /\ UNCHANGED <<st, outcome, idx, content, new_strings>>
    /\ UNCHANGED <<script, disk0, prev, run, last, added, writes, total_updated>>

NextIO == Next \/ ReadFails \/ WriteFails

SpecIO == Init /\ [][NextIO]_vars

-----------------------------------------------------------------------------
(* One file on its own *)

\* What each script's merge makes of one file, given the candidate entries:
\* the result it reports and the content the file has afterwards
merge_2fa(cands, text) ==
    IF ~WellFormed(text) THEN [outcome |-> "ParseError", text |-> text]
    ELSE LET root == getroot(text) IN
         IF new_keys(cands) \subseteq existing_keys_2fa(root)
         THEN [outcome |-> "NoOp", text |-> text]
         ELSE [outcome |-> "Added",
               text |-> tree_write(SubElements(root,
                                    new_elements(cands, existing_keys_2fa(root))))]

merge_security(cands, text) ==
    LET lines == new_strings_security(cands, existing_keys_security(text))
    IN  IF ~Decodable(text) THEN [outcome |-> "UnicodeDecodeError", text |-> text]
        ELSE IF nothing_new(lines) THEN [outcome |-> "NoOp", text |-> text]
        ELSE IF ~has_closing_tag(text) THEN [outcome |-> "AnchorNotFound", text |-> text]
        ELSE [outcome |-> "Added",
              text |-> replace_closing_tag(text, translation_block(lines))]

\* What the script does for one locale when that locale is the only row of
\* the table
Alone(s, lang, text) ==
    IF s = "security" /\ lang = "de" THEN [outcome |-> "Skipped", text |-> text]
    ELSE IF FolderOf(s, lang) = "" THEN [outcome |-> "UnknownLocale", text |-> text]
    ELSE IF text = NoFile THEN [outcome |-> "NotFound", text |-> text]
    ELSE CASE s = "2fa"      -> merge_2fa(Candidates(s, lang), text)
           [] s = "security" -> merge_security(Candidates(s, lang), text)

-----------------------------------------------------------------------------
(* Properties *)

Done == idx > Len(LangTable(script))

\* The locales the current run has finished with
Processed == {l \in Langs(script) : st[l] \in Terminal}

\* C1 Idempotence: in every run after the first no file is written, every
\* file keeps the content the previous run left, and each locale reports
\* "NoOp" where the previous run reported "Added" or "NoOp" (and the same
\* failure where the previous run failed).
C1_Idempotent ==
    run >= 2 =>
        /\ disk = prev
        /\ \A l \in Langs(script) :
              /\ writes[l] = 0
              /\ l \in Processed =>
                   outcome[l] = IF last[l] = "Added" THEN "NoOp" ELSE last[l]

\* A second run is over, and a locale whose file the first run changed was
\* found complete by the second
C1_Witness ==
    /\ run = 2 /\ Done
    /\ \E l \in Langs(script) :
          /\ last[l] = "Added" /\ outcome[l] = "NoOp"
          /\ disk[FolderOf(script, l)] # disk0[FolderOf(script, l)]

\* The locales the current run has finished with and whose file exists
Merged == {l \in Processed : FolderOf(script, l) # "" /\ prev[FolderOf(script, l)] # NoFile}

\* Those of them whose file was a well-formed XML document when the run started
MergedWellFormed == {l \in Merged : WellFormed(prev[FolderOf(script, l)])}

\* No key is carried by two <string> elements of the file
UniqueKeys(text) == \A k \in DefinedKeys(text) : KeyCount(text, k) = 1

\* C2 Key uniqueness preserved: a well-formed file that defined each key at
\* most once before the run defines each key at most once after its locale
\* is done.
C2_KeyUniquenessPreserved ==
    \A l \in MergedWellFormed :
        UniqueKeys(prev[FolderOf(script, l)]) => UniqueKeys(disk[FolderOf(script, l)])

\* C3 Non-destructive: every key a well-formed file defined before the run
\* has the same value stored under it after its locale is done.
C3_ExistingValuesKept ==
    \A l \in MergedWellFormed :
        \A k \in DefinedKeys(prev[FolderOf(script, l)]) :
            ValuesOf(disk[FolderOf(script, l)], k) = ValuesOf(prev[FolderOf(script, l)], k)

\* The candidate entries whose key is not among keys, in table order
MissingFrom(cands, keys) == SelectSeq(cands, LAMBDA e : e[1] \notin keys)

\* C4 Order-preserving set difference: where a merge of a well-formed file
\* took place (result "Added" or "NoOp"), the entries written are the
\* candidate entries whose key the file did not define, in table order.
C4_AddsExactlyTheMissing ==
    \A l \in MergedWellFormed :
        outcome[l] \in {"Added", "NoOp"} =>
            added[l] = MissingFrom(Candidates(script, l),
                                   DefinedKeys(prev[FolderOf(script, l)]))

\* Every candidate key is defined by a <string> element of the file
AllKeysPresent(cands, text) == new_keys(cands) \subseteq DefinedKeys(text)

\* C5 No-op does not write: when a locale's well-formed file already defines
\* every candidate key, the locale ends with "NoOp", its file is not written,
\* and the file has the content it had.
C5_NoOpDoesNotWrite ==
    \A l \in MergedWellFormed :
        AllKeysPresent(Candidates(script, l), prev[FolderOf(script, l)]) =>
            /\ outcome[l] = "NoOp"
            /\ writes[l] = 0
            /\ disk[FolderOf(script, l)] = prev[FolderOf(script, l)]

\* The file of a locale on a disk; NoFile for a locale without a folder
FileOf(d, l) == IF FolderOf(script, l) = "" THEN NoFile ELSE d[FolderOf(script, l)]

\* C6 Isolation: every locale the loop has passed ended exactly as it ends
\* when it is the only row of the table (same result, same file content),
\* whatever happened to the locales before it; the files of the locales not
\* yet reached are untouched; and the loop goes on until the table is
\* exhausted.
C6_Isolation ==
    /\ \A i \in 1..Len(LangTable(script)) :
          LET l == LangTable(script)[i] IN
          IF i < idx
          THEN /\ st[l] \in Terminal
               /\ outcome[l] = Alone(script, l, FileOf(prev, l)).outcome
               /\ FileOf(disk, l) = Alone(script, l, FileOf(prev, l)).text
          ELSE /\ st[l] \notin Terminal
               /\ FileOf(disk, l) = FileOf(prev, l)
    /\ ~Done => ENABLED Next

\* The table is exhausted, a locale failed with NotFound, ParseError or
\* AnchorNotFound, and a later locale had entries added
C6_Witness ==
    /\ Done
    /\ \E i, j \in 1..Len(LangTable(script)) :
          /\ i < j
          /\ outcome[LangTable(script)[i]] \in {"NotFound", "ParseError", "AnchorNotFound"}
          /\ outcome[LangTable(script)[j]] = "Added"
          /\ writes[LangTable(script)[j]] = 1

\* C7 Every error is caught at the single-locale boundary: no exception leaves
\* the loop, also when opening a locale's file for reading or writing fails.
C7_NoErrorAbortsTheBatch == ~crashed

\* The insertion point of the text script exists: the closing </resources> tag
AnchorLocated(text) ==
    \E i \in 1..Len(text) : text[i].t = "close" /\ text[i].part = "whole"

\* Token i is an entry a script wrote (the files start with "Old" values only)
IsNewEntry(text, i) == text[i].t = "string" /\ text[i].val # "Old"

\* Token i belongs to written lines: a new entry or a line feed
InBlock(text, i) == IsNewEntry(text, i) \/ text[i].t = "nl"

\* The new entry at i stands right before the closing </resources> tag
BeforeClosingTag(text, i) ==
    /\ ~InsideComment(text, i)
    /\ \E c \in (i + 1)..Len(text) :
          /\ text[c].t = "close" /\ text[c].part = "whole"
          /\ \A j \in (i + 1)..(c - 1) : InBlock(text, j)

\* C8 Text-strategy anchor safety: when the closing tag cannot be located the
\* locale ends with "AnchorNotFound" and its file is unchanged, and entries
\* are only ever put right before the closing tag.
C8_AnchorSafety ==
    script = "security" =>
      \A l \in Merged :
        LET before == prev[FolderOf(script, l)]
            after  == disk[FolderOf(script, l)]
        IN  /\ (outcome[l] \in {"Added", "AnchorNotFound"} /\ ~AnchorLocated(before))
                 => (outcome[l] = "AnchorNotFound" /\ after = before)
            /\ outcome[l] = "Added" =>
                 \A i \in 1..Len(after) :
                    IsNewEntry(after, i) => BeforeClosingTag(after, i)

\* The key/value pairs a file defines
KeyValues(text) == {<<Entries(text)[i].name, Entries(text)[i].val>> : i \in 1..Len(Entries(text))}

\* C9 Strategy equivalence: on a well-formed file the structured script and
\* the closing-tag text script extract the same existing keys, and the locale
\* ends with the result and the key/value set the other strategy gives for
\* the same file and the same candidate entries.
C9_StrategiesAgree ==
    \A l \in MergedWellFormed :
        LET before == prev[FolderOf(script, l)]
            cands  == Candidates(script, l)
            other  == IF script = "2fa" THEN merge_security(cands, before)
                      ELSE merge_2fa(cands, before)
        IN  /\ existing_keys_2fa(getroot(before)) = existing_keys_security(before)
            /\ outcome[l] = other.outcome
            /\ KeyValues(disk[FolderOf(script, l)]) = KeyValues(other.text)

\* block holds the given entries, each once and in order, and line feeds
IsBlockOf(block, pairs) ==
    /\ \A i \in 1..Len(block) : block[i].t \in {"string", "nl"} /\ block[i].part = "whole"
    /\ PairsOf(block) = pairs

\* after is before with one block put in at one place
SplicedOnce(before, after, pairs) ==
    \E p \in 0..Len(before) :
        /\ Len(after) >= Len(before)
        /\ SubSeq(after, 1, p) = SubSeq(before, 1, p)
        /\ SubSeq(after, p + 1 + Len(after) - Len(before), Len(after))
              = SubSeq(before, p + 1, Len(before))
        /\ IsBlockOf(SubSeq(after, p + 1, p + Len(after) - Len(before)), pairs)

\* The file without its line feeds and with the quoting of the declaration
\* line left aside
Markup(text) ==
    LET kept == SelectSeq(text, LAMBDA tok : tok.t # "nl")
    IN  [i \in 1..Len(kept) |->
            IF kept[i].t = "decl" THEN [kept[i] EXCEPT !.val = "dq"] ELSE kept[i]]

\* C10 Append frame: after a successful append the file is the file before
\* with the new entries put in once, at one place, and nothing else changed
\* (line feeds and the quoting of the declaration line left aside).
C10_AppendFrame ==
    \A l \in Merged :
        outcome[l] = "Added" =>
            SplicedOnce(Markup(prev[FolderOf(script, l)]),
                        Markup(disk[FolderOf(script, l)]), added[l])

-----------------------------------------------------------------------------
(* The loop over the table *)

\* The statements of one process: everything but the start of the script
Step == Resolve \/ Read \/ Plan \/ Write

StepIO == Step \/ ReadFails \/ WriteFails

\* A process runs as long as it has something to do: a Python process is
\* never suspended for good between two statements.  Whether the script is
\* started once more is up to the user.
FairSpec == Spec /\ WF_vars(Step)

FairSpecIO == SpecIO /\ WF_vars(StepIO)

\* How far a locale has come on Pending -> Resolved -> Read -> Planned ->
\* finished
Rank(state) ==
    CASE state = "Pending"  -> 0
      [] state = "Resolved" -> 1
      [] state = "Read"     -> 2
      [] state = "Planned"  -> 3
      [] state \in Terminal -> 4

\* Within one run a step moves at most one locale, the one the loop is at,
\* and moves it forward; a finished locale stays as it is
MovesForward ==
    run' = run =>
        \A l \in Langs(script) :
            st'[l] # st[l] =>
                /\ l = cur
                /\ Rank(st[l]) < Rank(st'[l])
                /\ \A m \in Langs(script) \ {l} : st'[m] = st[m]

\* The locales before the loop's position are finished, those after it have
\* not been started, and a file is written at most once, by the locale that
\* ends as Written
InTableOrder ==
    /\ \A i \in 1..Len(LangTable(script)) :
          LET l == LangTable(script)[i] IN
          /\ i < idx => st[l] \in Terminal
          /\ i > idx => st[l] = "Pending"
          /\ writes[l] = IF st[l] = "Written" THEN 1 ELSE 0

\* The loop is through and every locale of the table is finished
AllFinished == Done /\ \A l \in Langs(script) : st[l] \in Terminal

\* C11 Per-locale state machine: each locale moves only forward along
\* Pending -> Resolved -> Read -> Planned -> finished, one locale at a time in
\* table order, a finished locale stays finished and its file is written at
\* most once per run, and the run ends with every locale of the table
\* finished.  (The security driver's skip of "de" counts as finished.)
C11_LocaleStateMachine ==
    /\ [][MovesForward]_vars
    /\ []InTableOrder
    /\ <>[]AllFinished

\* The locales of the candidate table that the locale-to-path map does not hold
Unmapped(s) == {l \in Langs(s) : FolderOf(s, l) = ""}

\* C12 Unknown locale: a locale of the candidate table that the path map does
\* not hold ends with "UnknownLocale" once the loop has passed it, no file is
\* written for it, the loop goes on to the next locale, and at the end of the
\* run every locale of the table has a result.
C12_UnknownLocale ==
    /\ \A i \in 1..Len(LangTable(script)) :
          LET l == LangTable(script)[i] IN
          (i < idx /\ l \in Unmapped(script)) =>
              /\ outcome[l] = "UnknownLocale"
              /\ writes[l] = 0
              /\ added[l] = <<>>
    /\ ~Done => ENABLED Next
    /\ Done => \A l \in Langs(script) : outcome[l] # "Pending"

\* The figures the driver prints after the loop.  The 2fa script prints
\* "Updated <total_updated> language file(s)" and "Total languages:
\* <len(TRANSLATIONS)>"; the security script prints a closing line without
\* any figure.
Summary ==
    IF script = "2fa"
    THEN [updated |-> total_updated, languages |-> Len(LangTable(script))]
    ELSE [f \in {} |-> 0]

\* The number of entries added over the first n locales of the table
RECURSIVE AddedUpTo(_)
AddedUpTo(n) ==
    IF n = 0 THEN 0 ELSE AddedUpTo(n - 1) + Len(added[LangTable(script)[n]])

\* The two figures the 2fa script prints are right: the files updated are the
\* locales that ended as Written, each with at least one entry added, and
\* the languages are the locales of the table
PrintedFiguresRight ==
    (script = "2fa" /\ Done) =>
        /\ Summary.updated = Cardinality({l \in Langs(script) : st[l] = "Written"})
        /\ \A l \in Langs(script) :
              st[l] = "Written" <=> (outcome[l] = "Added" /\ Len(added[l]) >= 1)
        /\ Summary.languages = Cardinality(Langs(script))

\* C13 Summary accuracy: when the loop of the 2fa script is through, its
\* summary gives the number of files updated (the locales that ended as
\* Written), the number of locales of the table, and the number of entries
\* added (the sum of the entries added per locale).
C13_SummaryAccurate ==
    (script = "2fa" /\ Done) =>
        /\ PrintedFiguresRight
        /\ "added" \in DOMAIN Summary
        /\ Summary.added = AddedUpTo(Len(LangTable(script)))

\* C14 Completeness: when a locale whose file was well-formed ends with "NoOp"
\* ("already has translations") or "Added", the file then defines every key
\* of the locale's candidate entries.
C14_ReportedMeansComplete ==
    \A l \in MergedWellFormed :
        outcome[l] \in {"NoOp", "Added"} =>
            new_keys(Candidates(script, l)) \subseteq DefinedKeys(disk[FolderOf(script, l)])

====
